---- MODULE Spec2Model ----
(***************************************************************************)
(* Model of the CodeMatrix backend: the shared process state              *)
(* (core/state_manager.py), the in-memory index registry and the query    *)
(* pipeline (core/rag_service.py), the repository pipeline                *)
(* (core/cloning_service.py) and the HTTP handlers that drive them        *)
(* (main.py).                                                              *)
(*                                                                         *)
(* Scheduling.  Everything runs on one asyncio event loop.  A coroutine   *)
(* keeps the loop until it suspends.  `async with state_lock` does not    *)
(* suspend when the lock is free, and the lock is always free because no  *)
(* holder awaits inside it; so update_state/get_state/reset_state never   *)
(* yield.  The only suspension points of a pipeline run are the three     *)
(* `await asyncio.wait_for(loop.run_in_executor(...))` fetches.  The      *)
(* variable `running` names the run that holds the loop (0: loop free);   *)
(* request handlers run only when the loop is free and are one step each. *)
(* A background task scheduled by POST /clone starts after the response   *)
(* has been sent, so other requests may be served in between.             *)
(*                                                                         *)
(* Text.  Strings on which the code computes (URLs, names, paths) are     *)
(* sequences of one-character strings.  Messages are sequences of         *)
(* strings.  Python's None is the value None below, which is no string.   *)
(* Progress is counted in tenths (0.1 is 1, 1.0 is 10).                    *)
(***************************************************************************)
EXTENDS Integers, Sequences, FiniteSets, TLC

\* ------------------------------------------------------------------ bounds
MaxRuns == 2
MaxChunks == 2
MaxStores == 2

Runs == 1..MaxRuns

\* ------------------------------------------------------------------ text
None == <<"None">>

Max(S) == CHOOSE x \in S : \A y \in S : y <= x

\* os.path.basename: the part after the last "/"
Basename(p) ==
    LET idx == {i \in 1..Len(p) : p[i] = "/"}
    IN  IF idx = {} THEN p ELSE SubSeq(p, Max(idx) + 1, Len(p))

\* str.replace(pat, ''): every non-overlapping occurrence, left to right
RECURSIVE RemoveAll(_, _)
RemoveAll(s, pat) ==
    IF Len(s) < Len(pat) THEN s
    ELSE IF SubSeq(s, 1, Len(pat)) = pat
         THEN RemoveAll(SubSeq(s, Len(pat) + 1, Len(s)), pat)
         ELSE <<s[1]>> \o RemoveAll(Tail(s), pat)

\* Python's `sub in s` on strings
Contains(sub, s) ==
    \E i \in 0..(Len(s) - Len(sub)) : SubSeq(s, i + 1, i + Len(sub)) = sub

\* os.path.join(dir, name)
PathJoin(dir, name) ==
    IF name # <<>> /\ name[1] = "/" THEN name
    ELSE IF dir # <<>> /\ dir[Len(dir)] = "/" THEN dir \o name
    ELSE dir \o <<"/">> \o name

\* Python truthiness of an optional string
Truthy(s) == s # None /\ s # <<>>

DotGit == <<".", "g", "i", "t">>

\* tempfile.gettempdir() and REPO_DIR = <tmp>/codematrix_repos
TempDir == <<"/", "t">>
REPO_DIR == PathJoin(TempDir, <<"c">>)

\* int(time.time()) as text, as read by the run that needs a fresh path
TimeStamps == {<<"7">>}

\* urlparse(repo_url).path of the repositories requested
Urls == { <<"/", "u", "/", "a", ".", "g", "i", "t">>,
          <<"/", "u", "/", "a", "b">> }

\* os.path.basename(urlparse(repo_url).path).replace('.git', '')
RepoNameOf(url) == RemoveAll(Basename(url), DotGit)

\* ------------------------------------------------------------------ messages
MsgAwaiting == <<"Awaiting repository.">>
MsgAccessing(name) == <<"Accessing repository ">> \o name \o <<"...">>
MsgParsing == <<"Parsing code files...">>
MsgEmbedding == <<"Creating embeddings for code chunks...">>
MsgReady == <<"Repository successfully indexed and ready to be queried.">>
MsgCloneFailed(cause) ==
    <<"Failed to clone repository after multiple attempts: ">> \o cause
MsgNoDir == <<"Repository directory does not exist">>
MsgNoFiles == <<"No supported code files found in the repository.">>
AnsNoRepo ==
    <<"No repository is currently loaded. Please clone a repository first.">>
AnsNoIndex(name) ==
    <<"No repository index found for '">> \o name
        \o <<"'. Please clone a repository first.">>
AnsError(cause) ==
    <<"An error occurred while processing your question: ">> \o cause

\* ------------------------------------------------------------------ state
VARIABLES
    app_state,      \* state_manager.app_state
    VECTOR_STORES,  \* rag_service.VECTOR_STORES, in insertion order
    fs,             \* the clone directories that exist on disk
    runs,           \* the background tasks clone_and_process_repo
    running,        \* the run holding the event loop, 0 if none
    response,       \* what the step just taken answered to an HTTP client;
                    \* NoResponse after a step of a background task
    state_file,     \* STATE_FILE: <<>> if absent, else <<the snapshot saved>>
    pending         \* <<>>, or <<[r, pc]>>: a request reached the server
                    \* while run r held the event loop at pc and waits

vars == <<app_state, VECTOR_STORES, fs, runs, running, response,
          state_file, pending>>

\* the empty dict {} of repo_metadata; [by |-> r] is the summary collected
\* by run r
EmptyMetadata == [by |-> 0]

\* the initial value of app_state
InitialAppState ==
    [ status        |-> "idle",
      message       |-> MsgAwaiting,
      progress      |-> 0,
      repo_path     |-> None,
      repo_name     |-> None,
      repo_metadata |-> EmptyMetadata,
      is_processing |-> FALSE,
      last_updated  |-> 0 ]

\* ------------------------------------------------------------------ state_manager
\* _get_repo_name_from_path without os.path.basename
GetRepoNameFromPath_whole(repo_path, files) ==
    IF Truthy(repo_path) /\ repo_path \in files
    THEN repo_path ELSE None

\* _get_repo_name_from_path(repo_path)
GetRepoNameFromPath(repo_path, files) ==
    IF Truthy(repo_path) /\ repo_path \in files
    THEN Basename(repo_path) ELSE None

Has(kw, f) == f \in DOMAIN kw

\* update_state with the name taken from repo_path whenever a path is
\* supplied, also when the caller supplied repo_name
update_state_path_wins(st, kw, files) ==
    LET derived == IF Has(kw, "repo_path")
                   THEN GetRepoNameFromPath(kw.repo_path, files) ELSE None
        name == IF derived # None THEN derived
                ELSE IF Has(kw, "repo_name") THEN kw.repo_name ELSE None
    IN  [ status        |-> IF Has(kw, "status") THEN kw.status ELSE st.status,
          message       |-> IF Has(kw, "message") THEN kw.message ELSE st.message,
          progress      |-> IF Has(kw, "progress") THEN kw.progress ELSE st.progress,
          repo_path     |-> IF Has(kw, "repo_path") THEN kw.repo_path ELSE st.repo_path,
          repo_name     |-> IF name # None THEN name ELSE st.repo_name,
          repo_metadata |-> IF Has(kw, "repo_metadata") THEN kw.repo_metadata
                            ELSE st.repo_metadata,
          is_processing |-> IF Has(kw, "is_processing") THEN kw.is_processing
                            ELSE st.is_processing,
          last_updated  |-> 1 ]

\* update_state(**kw): the keyword arguments supplied are the domain of kw
update_state(st, kw, files) ==
    LET name == IF Has(kw, "repo_path") /\ ~Has(kw, "repo_name")
                THEN GetRepoNameFromPath(kw.repo_path, files)
                ELSE IF Has(kw, "repo_name") THEN kw.repo_name ELSE None
    IN  [ status        |-> IF Has(kw, "status") THEN kw.status ELSE st.status,
          message       |-> IF Has(kw, "message") THEN kw.message ELSE st.message,
          progress      |-> IF Has(kw, "progress") THEN kw.progress ELSE st.progress,
          repo_path     |-> IF Has(kw, "repo_path") THEN kw.repo_path ELSE st.repo_path,
          repo_name     |-> IF name # None THEN name ELSE st.repo_name,
          repo_metadata |-> IF Has(kw, "repo_metadata") THEN kw.repo_metadata
                            ELSE st.repo_metadata,
          is_processing |-> IF Has(kw, "is_processing") THEN kw.is_processing
                            ELSE st.is_processing,
          last_updated  |-> 1 ]

\* get_state(): a copy of app_state
get_state == app_state

\* reset_state without "is_processing": False in its update
reset_state_keeps_lock ==
    [InitialAppState EXCEPT !.is_processing = app_state.is_processing]

\* reset_state()
reset_state == InitialAppState

\* _save_persistent_state(): json.dump(app_state) replaces the file.  Every
\* value of app_state is a string, a number, a boolean, None or a dict of
\* such, which json.load gives back unchanged.
SavedFile(st) == <<st>>

\* the file after reset_state removed it
NoFile == <<>>

\* _load_persistent_state() at module import: app_state.update(saved_state)
\* on the initial app_state, every key of which the saved state has
LoadPersistentState(file) ==
    IF file = NoFile THEN InitialAppState ELSE file[1]

\* ------------------------------------------------------------------ registry
Keys(stores) == [i \in 1..Len(stores) |-> stores[i].key]
HasKey(stores, k) == \E i \in 1..Len(stores) : stores[i].key = k
IndexOfKey(stores, k) == CHOOSE i \in 1..Len(stores) : stores[i].key = k

\* store_vector_db with dict.setdefault in place of the assignment: an
\* existing entry is kept
store_vector_db_setdefault(stores, k, vs) ==
    IF HasKey(stores, k) THEN stores
    ELSE Append(stores, [key |-> k, vs |-> vs])

\* store_vector_db(repo_name, vectorstore): dict assignment keeps the
\* position of an existing key and appends a new one
store_vector_db(stores, k, vs) ==
    IF HasKey(stores, k)
    THEN [stores EXCEPT ![IndexOfKey(stores, k)] = [key |-> k, vs |-> vs]]
    ELSE Append(stores, [key |-> k, vs |-> vs])

\* clear_vector_db(repo_name)
clear_vector_db(stores, k) ==
    SelectSeq(stores, LAMBDA e : e.key # k)

\* clear_all_vector_dbs()
clear_all_vector_dbs == <<>>

\* the None that VECTOR_STORES.get returns for a missing key
NoStore == [by |-> 0, n |-> 0]

\* get_vector_db(repo_name)
get_vector_db(stores, k) ==
    IF HasKey(stores, k) THEN stores[IndexOfKey(stores, k)].vs ELSE NoStore

\* get_vector_store_info(): the "stores" list and the count
get_vector_store_info(stores) ==
    [stores |-> Keys(stores), count |-> Len(stores)]

\* ------------------------------------------------------------------ query
\* the documents a retriever with search_kwargs k returns from a store of
\* vs.n chunks built by run vs.by: the k nearest, at most vs.n
Retrieve(vs, k) ==
    [i \in 1..(IF k < vs.n THEN k ELSE vs.n) |-> [by |-> vs.by, i |-> i]]

\* the lookup of lines 51-62 without the exact match of lines 53-55: the
\* first key that contains repo_name or is contained in it
ResolveStore_fuzzy_first(stores, repo_name) ==
    LET m == {i \in 1..Len(stores) :
                 \/ Contains(repo_name, stores[i].key)
                 \/ Contains(stores[i].key, repo_name)}
    IN  IF m = {} THEN 0 ELSE CHOOSE i \in m : \A j \in m : i <= j

\* the index query_codebase resolves for repo_name: 0 if none
ResolveStore(stores, repo_name) ==
    IF HasKey(stores, repo_name) THEN IndexOfKey(stores, repo_name)
    ELSE LET m == {i \in 1..Len(stores) :
                      \/ Contains(repo_name, stores[i].key)
                      \/ Contains(stores[i].key, repo_name)}
         IN  IF m = {} THEN 0 ELSE CHOOSE i \in m : \A j \in m : i <= j

\* the "\n\n" that format_docs puts between two chunks
DocSeparator == [by |-> 0, i |-> 0]

\* format_docs that keeps the first chunk only
FormatDocs_first(docs) ==
    IF docs = <<>> THEN <<>> ELSE <<docs[1]>>

\* format_docs(docs): the page contents joined by "\n\n"
FormatDocs(docs) ==
    [j \in 1..(IF docs = <<>> THEN 0 ELSE 2 * Len(docs) - 1) |->
        IF j % 2 = 1 THEN docs[(j + 1) \div 2] ELSE DocSeparator]

\* context: what the prompt of the completion call held as context
QResult(answer, retrieved, nr, nc) ==
    [ raised |-> FALSE, cause |-> <<>>, answer |-> answer,
      retrieved_code |-> retrieved, retrievals |-> nr, completions |-> nc,
      context |-> <<>> ]

QRaise(cause, nr, nc) ==
    [ raised |-> TRUE, cause |-> cause, answer |-> <<>>,
      retrieved_code |-> <<>>, retrievals |-> nr, completions |-> nc,
      context |-> <<>> ]

\* lines 32-189 with lines 37-45 returning the no-repository answer
\* whenever the state records no name
QueryResolved_no_fallback(st, stores, top_k, current_file, env) ==
    IF ~Truthy(st.repo_name)
    THEN QResult(AnsNoRepo, <<>>, 0, 0)
    ELSE
    LET repo_name == st.repo_name
        i == ResolveStore(stores, repo_name)
        k == IF Truthy(current_file) THEN top_k + 2 ELSE top_k
    IN  IF i = 0 THEN QResult(AnsNoIndex(repo_name), <<>>, 0, 0)
        ELSE IF env.retrieve # "ok" THEN QRaise(<<"retrieval failed">>, 1, 0)
        ELSE IF env.complete # "ok" THEN QRaise(<<"completion failed">>, 1, 1)
        ELSE LET retrieved_docs == Retrieve(stores[i].vs, k)
             IN  [ QResult(<<"completion for ">> \o repo_name,
                           retrieved_docs, 1, 1)
                   EXCEPT !.context = FormatDocs(retrieved_docs) ]

\* lines 32-189 of query_codebase, after the check for an empty registry
QueryResolved(st, stores, top_k, current_file, env) ==
    IF ~Truthy(st.repo_name) /\ stores = <<>>
    THEN QResult(AnsNoRepo, <<>>, 0, 0)
    ELSE
    LET repo_name == IF Truthy(st.repo_name) THEN st.repo_name
                     ELSE stores[1].key
        i == ResolveStore(stores, repo_name)
        k == IF Truthy(current_file) THEN top_k + 2 ELSE top_k
    IN  IF i = 0 THEN QResult(AnsNoIndex(repo_name), <<>>, 0, 0)
        ELSE IF env.retrieve # "ok" THEN QRaise(<<"retrieval failed">>, 1, 0)
        ELSE IF env.complete # "ok" THEN QRaise(<<"completion failed">>, 1, 1)
        ELSE LET retrieved_docs == Retrieve(stores[i].vs, k)
             IN  [ QResult(<<"completion for ">> \o repo_name,
                           retrieved_docs, 1, 1)
                   EXCEPT !.context = FormatDocs(retrieved_docs) ]

\* query_try without the check for an empty registry of lines 32-35
query_try_unchecked(st, stores, top_k, current_file, env) ==
    QueryResolved(st, stores, top_k, current_file, env)

\* the body of the try block of query_codebase.  env gives the outcome of
\* the retrieval and of the completion call, should they be made.
query_try(st, stores, top_k, current_file, env) ==
    IF stores = <<>> THEN QResult(AnsNoRepo, <<>>, 0, 0)
    ELSE QueryResolved(st, stores, top_k, current_file, env)

\* query_codebase without its except clause
query_codebase_uncaught(st, stores, top_k, current_file, env) ==
    query_try(st, stores, top_k, current_file, env)

\* query_codebase: the try block and its except clause
query_codebase(st, stores, top_k, current_file, env) ==
    LET res == query_try(st, stores, top_k, current_file, env)
    IN  IF res.raised
        THEN [ res EXCEPT !.raised = FALSE, !.answer = AnsError(res.cause),
                          !.retrieved_code = <<>> ]
        ELSE res

\* ------------------------------------------------------------------ startup
\* rehydrate_state_on_startup without "is_processing": False
rehydrate_state_on_startup_keeps_lock(st) ==
    [ st EXCEPT !.status = "idle",
                !.message = <<"Ready to process repositories.">>,
                !.progress = 0,
                !.repo_path = <<>>,
                !.repo_name = <<>> ]

\* rehydrate_state_on_startup(): the app_state.update(...) of the startup
\* hook; the hook also clears the registry
rehydrate_state_on_startup(st) ==
    [ st EXCEPT !.status = "idle",
                !.message = <<"Ready to process repositories.">>,
                !.progress = 0,
                !.repo_path = <<>>,
                !.repo_name = <<>>,
                !.is_processing = FALSE ]

NoResponse ==
    [ op |-> "none", code |-> 0, status |-> "", progress |-> 0,
      answer |-> <<>>, retrieved_code |-> <<>>,
      retrievals |-> 0, completions |-> 0, arrived |-> <<>>,
      context |-> <<>> ]

\* a task slot that no POST /clone has used yet
UnusedRun ==
    [ pc |-> "unused", url |-> <<>>, repo_name |-> <<>>, repo_path |-> <<>>,
      alt_path |-> <<>>, clone_error |-> <<>>, exc |-> <<>>,
      attempts |-> <<>>, docs |-> "", writes |-> <<>>,
      todo |-> <<>>, before |-> <<>> ]

Init ==
    /\ app_state = rehydrate_state_on_startup(InitialAppState)
    /\ VECTOR_STORES = clear_all_vector_dbs
    /\ fs = {}
    /\ runs = [r \in Runs |-> UnusedRun]
    /\ running = 0
    /\ response = NoResponse
    /\ state_file = NoFile
    /\ pending = <<>>

\* a handler answers: the request served is the one that waited, if any
Respond(r) ==
    /\ response' = [r EXCEPT !.arrived = pending]
    /\ pending' = <<>>

\* ------------------------------------------------------------------ main.py
\* POST /clone without the is_processing check of lines 97-99
clone_repository_unchecked(url) ==
    /\ running = 0
    /\ LET free == {r \in Runs : runs[r].pc = "unused"}
       IN  /\ free # {}
           /\ VECTOR_STORES' = clear_all_vector_dbs
           /\ LET r == CHOOSE x \in free : \A y \in free : x <= y
              IN  runs' = [runs EXCEPT ![r].pc = "scheduled", ![r].url = url]
           /\ Respond([NoResponse EXCEPT !.op = "clone", !.code = 200])
           /\ UNCHANGED <<app_state, fs, running, state_file>>

\* POST /clone
clone_repository(url) ==
    /\ running = 0
    /\ LET current_state == get_state
           free == {r \in Runs : runs[r].pc = "unused"}
       IN  IF current_state.is_processing
           THEN /\ Respond([NoResponse EXCEPT !.op = "clone", !.code = 409])
                /\ UNCHANGED <<app_state, VECTOR_STORES, fs, runs, running,
                               state_file>>
           ELSE /\ free # {}
                /\ VECTOR_STORES' = clear_all_vector_dbs
                /\ LET r == CHOOSE x \in free : \A y \in free : x <= y
                   IN  runs' = [runs EXCEPT ![r].pc = "scheduled", ![r].url = url]
                /\ Respond([NoResponse EXCEPT !.op = "clone", !.code = 200])
                /\ UNCHANGED <<app_state, fs, running, state_file>>

\* GET /status
get_status ==
    /\ running = 0
    /\ LET state == get_state
       IN  Respond([NoResponse EXCEPT !.op = "status", !.code = 200,
                                      !.status = state.status,
                                      !.answer = state.message,
                                      !.progress = state.progress])
    /\ UNCHANGED <<app_state, VECTOR_STORES, fs, runs, running, state_file>>

\* POST /debug/reset
reset_application_state ==
    /\ running = 0
    /\ app_state' = reset_state
    /\ state_file' = NoFile
    /\ VECTOR_STORES' = clear_all_vector_dbs
    /\ Respond([NoResponse EXCEPT !.op = "reset", !.code = 200])
    /\ UNCHANGED <<fs, runs, running>>

TopKs == {1, 2}
Envs == [retrieve : {"ok", "fail"}, complete : {"ok", "fail"}]

\* POST /chat
chat_with_repo(top_k, env) ==
    /\ running = 0
    /\ LET result == query_codebase(get_state, VECTOR_STORES, top_k, None, env)
       IN  IF result.raised
           THEN Respond([NoResponse EXCEPT !.op = "chat", !.code = 500,
                             !.answer = result.cause,
                             !.retrievals = result.retrievals,
                             !.completions = result.completions])
           ELSE Respond([NoResponse EXCEPT !.op = "chat", !.code = 200,
                             !.answer = result.answer,
                             !.retrieved_code = result.retrieved_code,
                             !.retrievals = result.retrievals,
                             !.completions = result.completions])
    /\ UNCHANGED <<app_state, VECTOR_STORES, fs, runs, running, state_file>>

\* ------------------------------------------------------------------ cloning_service.py
\* a call update_state(**kw) made by run r
RunUpdate(r, kw, pc) ==
    /\ app_state' = update_state(app_state, kw, fs)
    /\ state_file' = SavedFile(app_state')
    /\ runs' = [runs EXCEPT ![r].writes = Append(@, kw), ![r].pc = pc]

\* `raise` with no try block around it: the exception leaves the coroutine
Raised_escapes(run, e) == [UnusedRun EXCEPT !.pc = "done"]

\* `raise` inside the try block of run r: control moves to the except clause
Raised(run, e) == [run EXCEPT !.pc = "except", !.exc = e]

\* lines 22-29 with the status announced along with the lock
RunStart_announces(r) ==
    /\ running = 0
    /\ runs[r].pc = "scheduled"
    /\ running' = r
    /\ RunUpdate(r, [is_processing |-> TRUE, status |-> "cloning"], "locked")
    /\ UNCHANGED <<VECTOR_STORES, fs>>
    /\ response' = NoResponse
    /\ UNCHANGED pending

\* lines 22-29: the task starts and sets the lock
RunStart(r) ==
    /\ running = 0
    /\ runs[r].pc = "scheduled"
    /\ running' = r
    /\ RunUpdate(r, [is_processing |-> TRUE], "locked")
    /\ UNCHANGED <<VECTOR_STORES, fs>>
    /\ response' = NoResponse
    /\ UNCHANGED pending

\* lines 31-38 without the update_state call of line 38
BeginCloning_silent(r) ==
    /\ running = r
    /\ runs[r].pc = "locked"
    /\ LET repo_name == RepoNameOf(runs[r].url)
           repo_path == PathJoin(REPO_DIR, repo_name)
       IN  /\ VECTOR_STORES' = clear_vector_db(VECTOR_STORES, repo_name)
           /\ runs' = [runs EXCEPT ![r].repo_name = repo_name,
                                   ![r].repo_path = repo_path,
                                   ![r].pc = "cloning"]
    /\ UNCHANGED <<app_state, fs, running, state_file>>
    /\ response' = NoResponse
    /\ UNCHANGED pending

\* lines 31-38: names, clear_vector_db(repo_name), status cloning
BeginCloning(r) ==
    /\ running = r
    /\ runs[r].pc = "locked"
    /\ LET repo_name == RepoNameOf(runs[r].url)
           repo_path == PathJoin(REPO_DIR, repo_name)
           kw == [ status |-> "cloning", message |-> MsgAccessing(repo_name),
                   progress |-> 1, repo_name |-> repo_name ]
       IN  /\ VECTOR_STORES' = clear_vector_db(VECTOR_STORES, repo_name)
           /\ app_state' = update_state(app_state, kw, fs)
           /\ state_file' = SavedFile(app_state')
           /\ runs' = [runs EXCEPT ![r].repo_name = repo_name,
                                   ![r].repo_path = repo_path,
                                   ![r].writes = Append(@, kw),
                                   ![r].pc = "cloning"]
    /\ UNCHANGED <<fs, running>>
    /\ response' = NoResponse
    /\ UNCHANGED pending

\* lines 40-70 without the try/except of lines 46-53 around shutil.rmtree:
\* a removal that fails raises inside the run
PrepareAndFetch_fatal(r, rm_ok, t) ==
    /\ running = r
    /\ runs[r].pc = "cloning"
    /\ LET repo_path == runs[r].repo_path
       IN  IF repo_path \in fs /\ ~rm_ok
           THEN /\ fs' = fs
                /\ runs' = [runs EXCEPT ![r] = Raised(@, <<"could not remove">>)]
                /\ running' = r
           ELSE /\ fs' = fs \ {repo_path}
                /\ runs' = [runs EXCEPT ![r].pc = "fetching"]
                /\ running' = 0
    /\ UNCHANGED <<app_state, VECTOR_STORES, state_file>>
    /\ response' = NoResponse
    /\ UNCHANGED pending

\* lines 40-70: removal of the old copy (rm_ok: whether shutil.rmtree
\* succeeds, t: the time read if it does not), and the first fetch is handed
\* to the executor; the coroutine suspends
PrepareAndFetch(r, rm_ok, t) ==
    /\ running = r
    /\ runs[r].pc = "cloning"
    /\ LET repo_path == runs[r].repo_path
       IN  IF repo_path \in fs
           THEN IF rm_ok
                THEN /\ fs' = fs \ {repo_path}
                     /\ runs' = [runs EXCEPT ![r].pc = "fetching"]
                ELSE /\ fs' = fs
                     /\ runs' = [runs EXCEPT
                            ![r].repo_path =
                                PathJoin(REPO_DIR, runs[r].repo_name \o <<"_">> \o t),
                            ![r].pc = "fetching"]
           ELSE /\ fs' = fs
                /\ runs' = [runs EXCEPT ![r].pc = "fetching"]
    /\ running' = 0
    /\ UNCHANGED <<app_state, VECTOR_STORES, state_file>>
    /\ response' = NoResponse
    /\ UNCHANGED pending

FetchOutcomes == {"ok", "fail", "timeout"}

\* str(e) of the exception raised by fetch number n
GitError(n) ==
    IF n = 1 THEN <<"git error of the standard clone">>
    ELSE IF n = 2 THEN <<"git error of the alternative clone">>
    ELSE <<"git error of the clone into the alternative location">>

\* the message each fetch leaves in clone_error when it times out
TimeoutMessage(n) ==
    IF n = 1 THEN <<"Clone timed out">>
    ELSE IF n = 2 THEN <<"Alternative clone timed out">>
    ELSE <<"All cloning methods timed out">>

\* tempfile.gettempdir()/repo_<time>
AltPath(t) == PathJoin(TempDir, <<"r", "e", "p", "o", "_">> \o t)

\* lines 64-132: fetch number n = Len(attempts) + 1 ends and the coroutine
\* resumes.  git.Repo.clone_from in the executor returns (o = "ok") or
\* raises (o = "fail"), or the 60 s of asyncio.wait_for elapse first
\* (o = "timeout").  The first two fetches clone into repo_path, the third
\* into alt_path.  The next method is tried inside the `except Exception`
\* clause of the previous one, so only after the previous fetch raised;
\* t is the time read when the third method chooses its path.
AfterFetch(r, o, t) ==
    /\ running = 0
    /\ runs[r].pc = "fetching"
    /\ LET n == Len(runs[r].attempts) + 1
           target == IF n = 3 THEN runs[r].alt_path ELSE runs[r].repo_path
           run == [runs[r] EXCEPT !.attempts = Append(@, o)]
       IN  CASE o = "ok" ->
                 /\ fs' = fs \cup {target}
                 /\ runs' = [runs EXCEPT ![r] =
                        [run EXCEPT !.repo_path = target, !.pc = "cloned"]]
                 /\ running' = r
            [] o = "timeout" ->
                 /\ fs' = fs
                 /\ runs' = [runs EXCEPT ![r] =
                        Raised([run EXCEPT !.clone_error = TimeoutMessage(n)],
                               MsgCloneFailed(TimeoutMessage(n)))]
                 /\ running' = r
            [] o = "fail" /\ n < 3 ->
                 /\ fs' = fs
                 /\ runs' = [runs EXCEPT ![r] =
                        [run EXCEPT !.clone_error = GitError(n),
                                    !.alt_path = IF n = 2 THEN AltPath(t) ELSE @]]
                 /\ running' = 0
            [] o = "fail" /\ n = 3 ->
                 /\ fs' = fs
                 /\ runs' = [runs EXCEPT ![r] =
                        Raised([run EXCEPT !.clone_error = GitError(n)],
                               MsgCloneFailed(GitError(n)))]
                 /\ running' = r
    /\ UNCHANGED <<app_state, VECTOR_STORES, state_file>>
    /\ response' = NoResponse
    /\ UNCHANGED pending

\* line 135 without its update_state call
StartIndexing_silent(r) ==
    /\ running = r
    /\ runs[r].pc = "cloned"
    /\ runs' = [runs EXCEPT ![r].pc = "indexing"]
    /\ UNCHANGED <<app_state, VECTOR_STORES, fs, running, state_file>>
    /\ response' = NoResponse
    /\ UNCHANGED pending

\* line 135
StartIndexing(r) ==
    /\ running = r
    /\ runs[r].pc = "cloned"
    /\ RunUpdate(r, [ status |-> "indexing", message |-> MsgParsing,
                      progress |-> 4 ], "indexing")
    /\ UNCHANGED <<VECTOR_STORES, fs, running>>
    /\ response' = NoResponse
    /\ UNCHANGED pending

\* lines 137-194 without the `if not documents` check of lines 180-181
LoadDocuments_unchecked(r, load) ==
    /\ running = r
    /\ runs[r].pc = "indexing"
    /\ runs' = [runs EXCEPT ![r] =
            IF runs[r].repo_path \notin fs THEN Raised(@, MsgNoDir)
            ELSE IF load = "fail"
                 THEN Raised([@ EXCEPT !.docs = load], <<"loader failed">>)
            ELSE [@ EXCEPT !.docs = load, !.pc = "loaded"]]
    /\ UNCHANGED <<app_state, VECTOR_STORES, fs, running, state_file>>
    /\ response' = NoResponse
    /\ UNCHANGED pending

LoadOutcomes == {"documents", "empty", "fail"}

\* lines 137-194: the directory must exist; loader.load() returns documents,
\* returns none, or raises
LoadDocuments(r, load) ==
    /\ running = r
    /\ runs[r].pc = "indexing"
    /\ runs' = [runs EXCEPT ![r] =
            IF runs[r].repo_path \notin fs THEN Raised(@, MsgNoDir)
            ELSE IF load = "fail"
                 THEN Raised([@ EXCEPT !.docs = load], <<"loader failed">>)
            ELSE IF load = "empty"
                 THEN Raised([@ EXCEPT !.docs = load], MsgNoFiles)
            ELSE [@ EXCEPT !.docs = load, !.pc = "loaded"]]
    /\ UNCHANGED <<app_state, VECTOR_STORES, fs, running, state_file>>
    /\ response' = NoResponse
    /\ UNCHANGED pending

\* line 197
StartEmbedding(r) ==
    /\ running = r
    /\ runs[r].pc = "loaded"
    /\ RunUpdate(r, [ status |-> "indexing", message |-> MsgEmbedding,
                      progress |-> 7 ], "embedding")
    /\ UNCHANGED <<VECTOR_STORES, fs, running>>
    /\ response' = NoResponse
    /\ UNCHANGED pending

\* lines 199-206 with an index registered before it is filled, so that it
\* stays registered when filling it raises
BuildAndStore_registers_first(r, built, n) ==
    /\ running = r
    /\ runs[r].pc = "embedding"
    /\ VECTOR_STORES' = store_vector_db(VECTOR_STORES, runs[r].repo_name,
                                        [by |-> r, n |-> n])
    /\ runs' = IF built THEN [runs EXCEPT ![r].pc = "stored"]
               ELSE [runs EXCEPT ![r] = Raised(@, <<"embedding failed">>)]
    /\ UNCHANGED <<app_state, fs, running, state_file>>
    /\ response' = NoResponse
    /\ UNCHANGED pending

\* lines 199-206: Chroma.from_documents builds an index of n chunks or
\* raises; the index is stored under repo_name
BuildAndStore(r, built, n) ==
    /\ running = r
    /\ runs[r].pc = "embedding"
    /\ IF built
       THEN /\ VECTOR_STORES' = store_vector_db(VECTOR_STORES, runs[r].repo_name,
                                                [by |-> r, n |-> n])
            /\ runs' = [runs EXCEPT ![r].pc = "stored"]
       ELSE /\ VECTOR_STORES' = VECTOR_STORES
            /\ runs' = [runs EXCEPT ![r] = Raised(@, <<"embedding failed">>)]
    /\ UNCHANGED <<app_state, fs, running, state_file>>
    /\ response' = NoResponse
    /\ UNCHANGED pending

\* lines 208-218 with the path of line 32 in the ready write
Finish_deterministic_path(r, collected) ==
    /\ running = r
    /\ runs[r].pc = "stored"
    /\ RunUpdate(r, [ status |-> "ready", message |-> MsgReady, progress |-> 10,
                      repo_path |-> PathJoin(REPO_DIR, runs[r].repo_name),
                      repo_metadata |-> IF collected THEN [by |-> r]
                                        ELSE EmptyMetadata ], "finally")
    /\ UNCHANGED <<VECTOR_STORES, fs, running>>
    /\ response' = NoResponse
    /\ UNCHANGED pending

\* lines 208-218: collect_repository_metadata returns its summary, or {}
\* when it failed; status ready
Finish(r, collected) ==
    /\ running = r
    /\ runs[r].pc = "stored"
    /\ RunUpdate(r, [ status |-> "ready", message |-> MsgReady, progress |-> 10,
                      repo_path |-> runs[r].repo_path,
                      repo_metadata |-> IF collected THEN [by |-> r]
                                        ELSE EmptyMetadata ], "finally")
    /\ UNCHANGED <<VECTOR_STORES, fs, running>>
    /\ response' = NoResponse
    /\ UNCHANGED pending

\* lines 220-222 with an except clause that leaves the progress as it is
HandleException_keeps_progress(r) ==
    /\ running = r
    /\ runs[r].pc = "except"
    /\ RunUpdate(r, [status |-> "error", message |-> runs[r].exc], "finally")
    /\ UNCHANGED <<VECTOR_STORES, fs, running>>
    /\ response' = NoResponse
    /\ UNCHANGED pending

\* lines 220-222: except Exception as e
HandleException(r) ==
    /\ running = r
    /\ runs[r].pc = "except"
    /\ RunUpdate(r, [ status |-> "error", message |-> runs[r].exc,
                      progress |-> 0 ], "finally")
    /\ UNCHANGED <<VECTOR_STORES, fs, running>>
    /\ response' = NoResponse
    /\ UNCHANGED pending

\* lines 223-225 with the release made only after a run that succeeded
Release_on_success(r) ==
    /\ running = r
    /\ runs[r].pc = "finally"
    /\ app_state' = IF runs[r].exc = <<>>
                    THEN update_state(app_state, [is_processing |-> FALSE], fs)
                    ELSE app_state
    /\ state_file' = IF runs[r].exc = <<>> THEN SavedFile(app_state')
                     ELSE state_file
    /\ runs' = [runs EXCEPT ![r] = [UnusedRun EXCEPT !.pc = "done"]]
    /\ running' = 0
    /\ UNCHANGED <<VECTOR_STORES, fs>>
    /\ response' = NoResponse
    /\ UNCHANGED pending

\* lines 223-225: finally; the coroutine returns and its locals are gone
Release(r) ==
    /\ running = r
    /\ runs[r].pc = "finally"
    /\ app_state' = update_state(app_state, [is_processing |-> FALSE], fs)
    /\ state_file' = SavedFile(app_state')
    /\ runs' = [runs EXCEPT ![r] = [UnusedRun EXCEPT !.pc = "done"]]
    /\ running' = 0
    /\ UNCHANGED <<VECTOR_STORES, fs>>
    /\ response' = NoResponse
    /\ UNCHANGED pending

\* ------------------------------------------------------------------ system
Next ==
    \/ \E url \in Urls : clone_repository(url)
    \/ get_status
    \/ reset_application_state
    \/ \E k \in TopKs, env \in Envs : chat_with_repo(k, env)
    \/ \E r \in Runs : RunStart(r)
    \/ \E r \in Runs : BeginCloning(r)
    \/ \E r \in Runs, rm_ok \in BOOLEAN, t \in TimeStamps : PrepareAndFetch(r, rm_ok, t)
    \/ \E r \in Runs, o \in FetchOutcomes, t \in TimeStamps : AfterFetch(r, o, t)
    \/ \E r \in Runs : StartIndexing(r)
    \/ \E r \in Runs, load \in LoadOutcomes : LoadDocuments(r, load)
    \/ \E r \in Runs : StartEmbedding(r)
    \/ \E r \in Runs, built \in BOOLEAN, n \in 1..MaxChunks : BuildAndStore(r, built, n)
    \/ \E r \in Runs, collected \in BOOLEAN : Finish(r, collected)
    \/ \E r \in Runs : HandleException(r)
    \/ \E r \in Runs : Release(r)

Spec == Init /\ [][Next]_vars

\* ------------------------------------------------------------------ scheduling
\* the steps of the background task r
RunStep(r) ==
    \/ RunStart(r)
    \/ BeginCloning(r)
    \/ \E rm_ok \in BOOLEAN, t \in TimeStamps : PrepareAndFetch(r, rm_ok, t)
    \/ \E o \in FetchOutcomes, t \in TimeStamps : AfterFetch(r, o, t)
    \/ StartIndexing(r)
    \/ \E load \in LoadOutcomes : LoadDocuments(r, load)
    \/ StartEmbedding(r)
    \/ \E built \in BOOLEAN, n \in 1..MaxChunks : BuildAndStore(r, built, n)
    \/ \E collected \in BOOLEAN : Finish(r, collected)
    \/ HandleException(r)
    \/ Release(r)

\* The event loop runs a task that has been added once the response is sent,
\* and resumes a coroutine whose await is over; loader, embedder and
\* metadata collection return or raise; a fetch returns, raises, or is cut
\* off by asyncio.wait_for after 60 s.  So a task that can take a step
\* takes one.
Fairness == \A r \in Runs : WF_vars(RunStep(r))

\* every run is asked for the same repository, so that each finds the
\* directory the run before it has cloned
FairUrls == { <<"/", "u", "/", "a", ".", "g", "i", "t">> }

\* The requests that start and reset runs, and the runs.  GET /status and
\* POST /chat assign neither app_state nor VECTOR_STORES nor a task, and are
\* left to Spec.
NextFair ==
    \/ \E url \in FairUrls : clone_repository(url)
    \/ reset_application_state
    \/ \E r \in Runs : RunStep(r)

SpecFair == Init /\ [][NextFair]_vars /\ Fairness

\* ------------------------------------------------------------------ crash and restart
\* The process dies and is started again.  torn: it died inside
\* _save_persistent_state after open(STATE_FILE, 'w') had emptied the file;
\* json.load fails on such a file and the exception is swallowed, as if the
\* file were absent.  Tasks, registry and waiting requests are gone with
\* the process; the import loads the file, then the startup hook runs.
crash_and_restart(torn) ==
    /\ torn => state_file # NoFile
    /\ state_file' = IF torn THEN NoFile ELSE state_file
    /\ app_state' = rehydrate_state_on_startup(LoadPersistentState(state_file'))
    /\ VECTOR_STORES' = clear_all_vector_dbs
    /\ runs' = [r \in Runs |-> IF runs[r].pc = "unused" THEN UnusedRun
                               ELSE [UnusedRun EXCEPT !.pc = "done"]]
    /\ running' = 0
    /\ response' = [NoResponse EXCEPT !.op = "restart"]
    /\ pending' = <<>>
    /\ UNCHANGED fs

NextCrash ==
    \/ Next
    \/ \E torn \in BOOLEAN : crash_and_restart(torn)

SpecCrash == Init /\ [][NextCrash]_vars

\* ------------------------------------------------------------------ waiting requests
\* the positions at which a run is inside a call that returns to the event
\* loop only when it is done: loader.load() (lines 172-178) and
\* Chroma.from_documents (lines 200-204)
LongCalls == {"indexing", "embedding"}

\* An HTTP request reaches the server while run r is inside such a call.
\* The event loop is not polling, so the request waits in the socket; the
\* handler that takes it runs once the loop is free.
Arrive(r) ==
    /\ running = r
    /\ runs[r].pc \in LongCalls
    /\ pending = <<>>
    /\ pending' = <<[r |-> r, pc |-> runs[r].pc]>>
    /\ UNCHANGED <<app_state, VECTOR_STORES, fs, runs, running, response,
                   state_file>>

NextQueued ==
    \/ Next
    \/ \E r \in Runs : Arrive(r)

SpecQueued == Init /\ [][NextQueued]_vars

\* ------------------------------------------------------------------ direct calls
\* A caller that imports state_manager and awaits update_state itself, as
\* test_rag.test_rag_pipeline does: no startup hook has run, app_state is
\* what the import left.  runs[1].writes holds the keyword arguments of
\* the call the caller made last.
FieldNames == { "status", "message", "progress", "repo_path", "repo_name",
                "repo_metadata", "is_processing" }

ClonedPath == PathJoin(REPO_DIR, <<"a">>)

\* the full sets of keyword arguments; a call supplies any part of one
FullArgs ==
    [ status        : {"ready", "error"},
      message       : {<<"Test repository loaded">>},
      progress      : {10},
      repo_path     : {ClonedPath},
      repo_name     : {<<"t">>},
      repo_metadata : {[by |-> 1]},
      is_processing : {TRUE} ]

UpdateArgs ==
    { [f \in D |-> full[f]] : full \in FullArgs, D \in SUBSET FieldNames }

\* the module has been imported; the directory ClonedPath exists or not
InitDirect ==
    /\ app_state = LoadPersistentState(NoFile)
    /\ VECTOR_STORES = <<>>
    /\ fs \in {{}, {ClonedPath}}
    /\ runs = [r \in Runs |-> UnusedRun]
    /\ running = 0
    /\ response = NoResponse
    /\ state_file = NoFile
    /\ pending = <<>>

\* await update_state(**kw)
direct_update_state(kw) ==
    /\ app_state' = update_state(app_state, kw, fs)
    /\ state_file' = SavedFile(app_state')
    /\ runs' = [runs EXCEPT ![1].writes = <<kw>>]
    /\ UNCHANGED <<VECTOR_STORES, fs, running, response, pending>>

NextDirect == \E kw \in UpdateArgs : direct_update_state(kw)

SpecDirect == InitDirect /\ [][NextDirect]_vars

\* ------------------------------------------------------------------ direct queries
\* A caller that awaits query_codebase itself, as test_rag.test_rag_pipeline
\* does, whatever the process state records as repo_name and whatever the
\* registry holds.
QueryKeys == << <<"a">>, <<"a", "b">>, <<"c">> >>

\* the index stored under QueryKeys[j]
QueryStore(j) == [by |-> j, n |-> MaxChunks]

\* the registries of at most MaxStores of these keys, in any insertion order
QueryRegistries ==
    LET orders == UNION { [1..n -> 1..Len(QueryKeys)] : n \in 0..MaxStores }
        distinct == {o \in orders :
                        \A i, j \in DOMAIN o : i # j => o[i] # o[j]}
    IN  { [i \in DOMAIN o |-> [key |-> QueryKeys[o[i]], vs |-> QueryStore(o[i])]] :
            o \in distinct }

\* the values of app_state["repo_name"]
QueryIds == { None, <<>>, <<"a">>, <<"a", "b">>, <<"b">>,
              <<"a", "b", "c">>, <<"x">> }

CurrentFiles == { None, <<"f">> }

InitQuery ==
    /\ \E id \in QueryIds : app_state = [InitialAppState EXCEPT !.repo_name = id]
    /\ VECTOR_STORES \in QueryRegistries
    /\ fs = {}
    /\ runs = [r \in Runs |-> UnusedRun]
    /\ running = 0
    /\ response = NoResponse
    /\ state_file = NoFile
    /\ pending = <<>>

\* await query_codebase(question, top_k, current_file)
direct_query_codebase(top_k, current_file, env) ==
    /\ LET result == query_codebase(get_state, VECTOR_STORES, top_k,
                                    current_file, env)
       IN  response' = [NoResponse EXCEPT !.op = "query", !.code = 200,
                            !.answer = result.answer,
                            !.retrieved_code = result.retrieved_code,
                            !.retrievals = result.retrievals,
                            !.completions = result.completions,
                            !.context = result.context]
    /\ UNCHANGED <<app_state, VECTOR_STORES, fs, runs, running, state_file,
                   pending>>

NextQuery ==
    \E k \in TopKs, f \in CurrentFiles, env \in Envs :
        direct_query_codebase(k, f, env)

SpecQuery == InitQuery /\ [][NextQuery]_vars

\* ------------------------------------------------------------------ state_lock
\* update_state statement by statement.  A coroutine r that awaits
\* update_state(**kw) acquires state_lock, makes the assignments of lines
\* 55-71 one after the other, stamps and saves, and releases the lock.
\* runs[r].writes holds kw, runs[r].todo the fields still to assign and
\* runs[r].before the app_state found when the lock was acquired.  Other
\* coroutines may be scheduled between any two statements.
FieldOrder == << "status", "message", "progress", "repo_path", "repo_name",
                "repo_metadata", "is_processing" >>

\* the fields update_state(**kw) assigns, in the order of the code
Todo(kw, files) ==
    SelectSeq(FieldOrder,
              LAMBDA f : \/ Has(kw, f)
                         \/ /\ f = "repo_name"
                            /\ Has(kw, "repo_path")
                            /\ GetRepoNameFromPath(kw.repo_path, files) # None)

\* one assignment app_state[f] = ... of update_state(**kw)
AssignField(st, kw, f, files) ==
    IF f = "repo_name" /\ ~Has(kw, f)
    THEN [st EXCEPT !.repo_name = GetRepoNameFromPath(kw.repo_path, files)]
    ELSE [st EXCEPT ![f] = kw[f]]

\* the calls made in this specification
LockArgs ==
    {kw \in UpdateArgs :
        DOMAIN kw \subseteq {"status", "message", "progress", "repo_path"}}

LockHeld == \E r \in Runs : runs[r].pc = "updating"

\* async with state_lock: entered
lock_update_begin(r, kw) ==
    /\ ~LockHeld
    /\ runs[r].pc = "unused"
    /\ runs' = [runs EXCEPT ![r].pc = "updating", ![r].writes = <<kw>>,
                            ![r].todo = Todo(kw, fs),
                            ![r].before = <<app_state>>]
    /\ response' = NoResponse
    /\ UNCHANGED <<app_state, VECTOR_STORES, fs, running, state_file, pending>>

\* lines 55-71: the next assignment
lock_update_assign(r) ==
    /\ runs[r].pc = "updating"
    /\ runs[r].todo # <<>>
    /\ app_state' = AssignField(app_state, runs[r].writes[1],
                                Head(runs[r].todo), fs)
    /\ runs' = [runs EXCEPT ![r].todo = Tail(@)]
    /\ response' = NoResponse
    /\ UNCHANGED <<VECTOR_STORES, fs, running, state_file, pending>>

\* lines 73-80: the timestamp, the save, and the lock is released
lock_update_end(r) ==
    /\ runs[r].pc = "updating"
    /\ runs[r].todo = <<>>
    /\ app_state' = [app_state EXCEPT !.last_updated = 1]
    /\ state_file' = SavedFile(app_state')
    /\ runs' = [runs EXCEPT ![r] = UnusedRun]
    /\ response' = NoResponse
    /\ UNCHANGED <<VECTOR_STORES, fs, running, pending>>

\* reset_state(): one app_state.update(...) and the removal of the file,
\* under the lock
lock_reset_state ==
    /\ ~LockHeld
    /\ app_state' = reset_state
    /\ state_file' = NoFile
    /\ response' = NoResponse
    /\ UNCHANGED <<VECTOR_STORES, fs, runs, running, pending>>

\* GET /status with a get_state that copies app_state without the lock
lock_get_status_unlocked ==
    /\ response' = [NoResponse EXCEPT !.op = "status", !.code = 200,
                                      !.status = app_state.status,
                                      !.answer = app_state.message,
                                      !.progress = app_state.progress]
    /\ UNCHANGED <<app_state, VECTOR_STORES, fs, runs, running, state_file,
                   pending>>

\* GET /status: get_state() copies app_state under the lock
lock_get_status ==
    /\ ~LockHeld
    /\ response' = [NoResponse EXCEPT !.op = "status", !.code = 200,
                                      !.status = app_state.status,
                                      !.answer = app_state.message,
                                      !.progress = app_state.progress]
    /\ UNCHANGED <<app_state, VECTOR_STORES, fs, runs, running, state_file,
                   pending>>

NextLock ==
    \/ \E r \in Runs, kw \in LockArgs : lock_update_begin(r, kw)
    \/ \E r \in Runs : lock_update_assign(r)
    \/ \E r \in Runs : lock_update_end(r)
    \/ lock_reset_state
    \/ lock_get_status

SpecLock == InitDirect /\ [][NextLock]_vars

\* ------------------------------------------------------------------ properties
\* the runs accepted by POST /clone whose task has not returned
InFlight == {r \in Runs : runs[r].pc \notin {"unused", "done"}}

\* the runs that have been accepted and have not yet written ready or error
BeforeTerminal == {r \in Runs : runs[r].pc \notin {"unused", "finally", "done"}}

\* the (status, progress) pairs of the update_state calls of a run that
\* supply a status, in call order
StatusWrites(run) ==
    LET w == SelectSeq(run.writes, LAMBDA kw : Has(kw, "status"))
    IN  [i \in 1..Len(w) |-> <<w[i].status, w[i].progress>>]

\* C1: a run returns only through its finally clause, and the write made
\* there, the last of the run, leaves is_processing false, whether the run
\* succeeded or failed.
C1_ReleaseIsLastWrite ==
    [][\A r \in Runs :
          (runs[r].pc # "done" /\ runs'[r].pc = "done")
              => /\ runs[r].pc = "finally"
                 /\ app_state'.is_processing = FALSE]_vars

C1_Witness ==
    \E r \in Runs : /\ runs[r].pc = "done"
                    /\ app_state.status = "error"
                    /\ app_state.is_processing = FALSE

\* C2: single-flight: at most one accepted run is between its start and its
\* return at any time.
C2_SingleFlight == Cardinality(InFlight) <= 1

\* C3: a POST /clone that finds is_processing true answers 409, schedules no
\* run and changes neither the process state nor the registry.
C3_BusyRejected ==
    [][(app_state.is_processing /\ response'.op = "clone")
          => /\ response'.code = 409
             /\ app_state' = app_state
             /\ runs' = runs
             /\ VECTOR_STORES' = VECTOR_STORES]_vars

C3_Witness ==
    /\ response.op = "clone"
    /\ response.code = 409
    /\ app_state.is_processing
    /\ InFlight # {}

\* C4: is_processing is true exactly while an accepted run has not reached
\* its terminal state: no run in flight means the flag is false, and a run
\* that has not yet written ready or error means the flag is true.
C4_ProcessingIffInFlight ==
    /\ app_state.is_processing => InFlight # {}
    /\ BeforeTerminal # {} => app_state.is_processing

\* C5: a fetch that times out is followed by the next strategy: after a
\* timeout of the first or second fetch, the run is waiting for, or has
\* made, the next fetch.
C5_TimeoutFallsBack ==
    \A r \in Runs : \A i \in 1..Len(runs[r].attempts) :
        (runs[r].attempts[i] = "timeout" /\ i < 3)
            => (Len(runs[r].attempts) > i \/ runs[r].pc = "fetching")

\* C6: once an exception has been raised inside a run, the step the run
\* takes is its except clause: it writes status error, progress 0 and the
\* cause as message, and the run goes on to its finally clause instead of
\* leaving the coroutine with the exception.
C6_FailureBecomesErrorState ==
    [][\A r \in Runs :
          (runs[r].pc = "except" /\ runs'[r] # runs[r])
              => /\ runs'[r].pc = "finally"
                 /\ app_state'.status = "error"
                 /\ app_state'.progress = 0
                 /\ app_state'.message = runs[r].exc]_vars

C6_Witness ==
    \E r \in Runs : /\ runs[r].pc = "finally"
                    /\ runs[r].exc = <<"embedding failed">>
                    /\ app_state.status = "error"
                    /\ app_state.message = runs[r].exc

\* C7: a run whose loader returned no documents stores no index, not even an
\* empty one, and ends with status error and progress 0.
C7_NoDocumentsNoIndex ==
    \A r \in Runs :
        runs[r].docs = "empty"
            => /\ runs[r].pc \in {"except", "finally"}
               /\ \A i \in 1..Len(VECTOR_STORES) : VECTOR_STORES[i].vs.by # r
               /\ runs[r].pc = "finally"
                    => /\ app_state.status = "error"
                       /\ app_state.progress = 0
                       /\ app_state.message = MsgNoFiles

C7_Witness ==
    \E r \in Runs : /\ runs[r].docs = "empty"
                    /\ runs[r].pc = "finally"
                    /\ app_state.status = "error"

\* C8: a run that reaches ready has written cloning/0.1 first, indexing/0.4
\* second and ready/1.0 last, with only indexing writes in between and a
\* progress that never decreases; status never goes from cloning to ready;
\* the ready write carries the metadata collected and the local path.
C8_SuccessfulRunOrder ==
    \A r \in Runs :
        (runs[r].pc = "finally" /\ runs[r].exc = <<>>)
            => LET w == StatusWrites(runs[r])
                   last == runs[r].writes[Len(runs[r].writes)]
               IN  /\ Len(w) >= 3
                   /\ w[1] = <<"cloning", 1>>
                   /\ w[2] = <<"indexing", 4>>
                   /\ w[Len(w)] = <<"ready", 10>>
                   /\ \A i \in 3..(Len(w) - 1) : w[i][1] = "indexing"
                   /\ \A i \in 1..(Len(w) - 1) :
                        /\ w[i][2] <= w[i + 1][2]
                        /\ ~(w[i][1] = "cloning" /\ w[i + 1][1] = "ready")
                   /\ Has(last, "repo_metadata") /\ Has(last, "repo_path")
                   /\ last.repo_path = runs[r].repo_path
                   /\ app_state.status = "ready"
                   /\ app_state.progress = 10
                   /\ app_state.repo_path = runs[r].repo_path
                   /\ app_state.repo_metadata = last.repo_metadata

C8_Witness ==
    \E r \in Runs : /\ runs[r].pc = "finally"
                    /\ runs[r].exc = <<>>
                    /\ app_state.repo_metadata = [by |-> r]

\* C9: POST /chat is never answered with an exception of query_codebase:
\* whatever the process state and the registry hold and whether retrieval
\* or completion fail, the result has an answer text and a list of chunks.
C9_QueryNeverRaises ==
    response.op = "chat"
        => /\ response.code = 200
           /\ response.answer # <<>>
           /\ response.retrieved_code \in Seq([by : Runs, i : 1..MaxChunks])

C9_Witness ==
    /\ response.op = "chat"
    /\ response.code = 200
    /\ response.retrievals = 1
    /\ response.completions = 0

\* C10: with an empty registry a query gets the fixed no-repository answer
\* and no chunks, without a retrieval or a completion call, whatever the
\* process state holds.
C10_EmptyRegistryAnswer ==
    (response.op = "chat" /\ VECTOR_STORES = <<>>)
        => /\ response.answer = AnsNoRepo
           /\ response.retrieved_code = <<>>
           /\ response.retrievals = 0
           /\ response.completions = 0

C10_Witness ==
    /\ response.op = "chat"
    /\ VECTOR_STORES = <<>>
    /\ Truthy(app_state.repo_name)
    /\ app_state.status # "idle"
    /\ response.answer = AnsNoRepo

\* the repository names a run can compute
RepoNames == {RepoNameOf(url) : url \in Urls}

\* C11: registry round trip.  After a run stored its index under its name,
\* the lookup by that name returns that index and the listing contains the
\* name; after clear_all_vector_dbs (reset, or an accepted POST /clone) no
\* name is found by the exact lookup nor resolved by the exact-then-substring
\* lookup of query_codebase; clear_vector_db(name) removes that name and
\* leaves every other entry as it was.
C11_RegistryRoundTrip ==
    [][/\ \A r \in Runs :
            (runs[r].pc = "embedding" /\ runs'[r].pc = "stored")
                => LET name == runs[r].repo_name
                       info == get_vector_store_info(VECTOR_STORES')
                   IN  /\ \E n \in 1..MaxChunks :
                            get_vector_db(VECTOR_STORES', name) = [by |-> r, n |-> n]
                       /\ \E i \in 1..info.count : info.stores[i] = name
       /\ (response'.op = "reset" \/ (response'.op = "clone" /\ response'.code = 200))
            => \A k \in RepoNames :
                   /\ get_vector_db(VECTOR_STORES', k) = NoStore
                   /\ ResolveStore(VECTOR_STORES', k) = 0
       /\ \A r \in Runs :
            (runs[r].pc = "locked" /\ runs'[r].pc = "cloning")
                => LET name == runs'[r].repo_name
                   IN  /\ get_vector_db(VECTOR_STORES', name) = NoStore
                       /\ ~HasKey(VECTOR_STORES', name)
                       /\ \A k \in RepoNames \ {name} :
                            get_vector_db(VECTOR_STORES', k)
                                = get_vector_db(VECTOR_STORES, k)
                       /\ Len(VECTOR_STORES') >= Len(VECTOR_STORES) - 1]_vars

\* a run has just stored its index next to the entry of another name
C11_Witness ==
    \E r \in Runs : /\ runs[r].pc = "stored"
                    /\ Len(VECTOR_STORES) = 2
                    /\ get_vector_db(VECTOR_STORES, runs[r].repo_name).by = r

\* the keyword arguments of the direct call just made
LastCall == runs'[1].writes[1]

C13_ResetThenAccepted ==
    [][/\ response'.op = "reset"
            => /\ get_state' = InitialAppState
               /\ get_state'.status = "idle"
               /\ get_state'.progress = 0
               /\ get_state'.repo_path = None
               /\ get_state'.repo_name = None
               /\ get_state'.repo_metadata = EmptyMetadata
               /\ ~get_state'.is_processing
       /\ (response.op = "reset" /\ response'.op = "clone")
            => /\ response'.code = 200
               /\ \E r \in Runs : /\ runs[r].pc = "unused"
                                   /\ runs'[r].pc = "scheduled"]_vars

\* a reset served while a run was fetching, and the POST /clone after it
C13_Witness ==
    /\ response.op = "clone"
    /\ response.code = 200
    /\ get_state = InitialAppState
    /\ \E r \in Runs : runs[r].pc = "fetching"

\* C14: a POST /clone that arrived while a run was in its indexing stage is
\* answered 409 and changes neither the process state nor the registry, so
\* that the run's index stays registered.
C14_RejectedDuringIndexing ==
    [][(response'.op = "clone" /\ response'.arrived # <<>>)
          => /\ response'.code = 409
             /\ app_state' = app_state
             /\ VECTOR_STORES' = VECTOR_STORES]_vars

\* the runs accepted whose ready write has not been made and that have
\* not failed
BeingBuilt ==
    {r \in Runs : runs[r].pc \in {"scheduled", "locked", "cloning", "fetching",
                                  "cloned", "indexing", "loaded", "embedding",
                                  "stored"}}

\* C15: between the acceptance of a run and its ready write the registry
\* holds no index built by a run accepted earlier, and no POST /chat
\* answered then carries chunks of such an index.
C15_NoStaleIndex ==
    \A r \in BeingBuilt :
        /\ \A i \in 1..Len(VECTOR_STORES) : VECTOR_STORES[i].vs.by >= r
        /\ response.op = "chat"
            => \A i \in 1..Len(response.retrieved_code) :
                   response.retrieved_code[i].by >= r

\* C16: after a crash and restart, at whatever point of a run the crash
\* came and whatever the persisted snapshot records, is_processing is
\* false, the registry is empty and no run is in flight; the POST /clone
\* served next is accepted and schedules a run.
C16_RestartUnlocks ==
    [][/\ response'.op = "restart"
            => /\ ~get_state'.is_processing
               /\ get_state'.status = "idle"
               /\ VECTOR_STORES' = <<>>
               /\ \A r \in Runs : runs'[r].pc \in {"unused", "done"}
       /\ (response.op = "restart" /\ response'.op = "clone")
            => /\ response'.code = 200
               /\ \E r \in Runs : /\ runs[r].pc = "unused"
                                   /\ runs'[r].pc = "scheduled"]_vars

\* the process died during indexing, the file still records is_processing
\* true, and the POST /clone after the restart has been accepted
C16_Witness ==
    /\ response.op = "clone"
    /\ response.code = 200
    /\ state_file # NoFile
    /\ state_file[1].is_processing
    /\ state_file[1].status = "indexing"
    /\ ~get_state.is_processing

\* what GET /status shows of a process state
Shown(st) == <<st.status, st.message, st.progress>>

\* C17: no torn reads.  What a status read returns is the process state
\* between two whole operations: if an update_state call is between its
\* first and its last statement, the read shows the state the call found
\* or the state the call leaves, never a mixture; and a call that
\* completes leaves exactly the state update_state defines.
C17_NoTornReads ==
    [][/\ response'.op = "status"
            => /\ Shown(get_state) = <<response'.status, response'.answer,
                                       response'.progress>>
               /\ \A r \in Runs :
                    runs[r].pc = "updating"
                        => \/ Shown(get_state) = Shown(runs[r].before[1])
                           \/ Shown(get_state) =
                                Shown(update_state(runs[r].before[1],
                                                   runs[r].writes[1], fs))
       /\ \A r \in Runs :
            (runs[r].pc = "updating" /\ runs'[r].pc = "unused")
                => get_state' = update_state(runs[r].before[1],
                                             runs[r].writes[1], fs)]_vars

\* a status read that shows fields written by completed calls next to a
\* field no call has written
C17_Witness ==
    /\ response.op = "status"
    /\ response.status = "error"
    /\ response.progress = 10
    /\ response.answer = MsgAwaiting
    /\ ~LockHeld

\* C18: re-entrancy.  A POST /clone served when the last run has written
\* ready or error and released is_processing is accepted as it is, with no
\* reset in between, and schedules a run; and a run that has started writes
\* status cloning, progress 0.1, as its first status, whatever status it
\* found.
C18_ReEntrant ==
    [][/\ ( /\ response'.op = "clone"
            /\ get_state.status \in {"ready", "error"}
            /\ ~get_state.is_processing )
            => /\ response'.code = 200
               /\ \E r \in Runs : /\ runs[r].pc = "unused"
                                   /\ runs'[r].pc = "scheduled"
       /\ \A r \in Runs :
            (runs[r].pc = "locked" /\ runs'[r] # runs[r])
                => /\ runs'[r].pc = "cloning"
                   /\ get_state'.status = "cloning"
                   /\ get_state'.progress = 1
                   /\ StatusWrites(runs'[r]) = << <<"cloning", 1>> >>]_vars

\* a POST /clone has just been accepted from status ready, after the run
\* before it returned
C18_Witness ==
    /\ response.op = "clone"
    /\ response.code = 200
    /\ get_state.status = "ready"
    /\ ~get_state.is_processing
    /\ \E r \in Runs : runs[r].pc = "done"
    /\ \E r \in Runs : runs[r].pc = "scheduled"
    /\ Cardinality(InFlight) = 1

\* the cause of the failure of fetch number n of a run
CauseOf(run, n) ==
    IF run.attempts[n] = "timeout" THEN TimeoutMessage(n) ELSE GitError(n)

\* the text part occurs in the message msg
Mentions(msg, part) == \E i \in 1..Len(msg) : <<msg[i]>> = part

\* C19: when all three fetches of a run have failed, the exception raised by
\* the acquisition, and with it the message of the error state, mentions
\* the cause of each of the three attempts.
C19_AllCausesReported ==
    \A r \in Runs :
        ( /\ runs[r].pc \in {"except", "finally"}
          /\ Len(runs[r].attempts) = 3
          /\ \A n \in 1..3 : runs[r].attempts[n] # "ok" )
            => \A n \in 1..3 :
                   /\ Mentions(runs[r].exc, CauseOf(runs[r], n))
                   /\ runs[r].pc = "finally"
                        => Mentions(get_state.message, CauseOf(runs[r], n))

\* C20: no long-latency step holds the event loop: a run that is waiting
\* for a fetch, loading files or building the index has given the loop
\* back, and a request that arrived during such a step is served before the
\* step has finished, not left waiting beyond it.
C20_LongStepsYield ==
    /\ \A r \in Runs :
          runs[r].pc \in {"fetching"} \cup LongCalls => running # r
    /\ pending # <<>> => runs[pending[1].r].pc = pending[1].pc

\* the keys that contain the name or are contained in it, by position
FuzzyMatches(stores, name) ==
    {i \in 1..Len(stores) : \/ Contains(name, stores[i].key)
                            \/ Contains(stores[i].key, name)}

\* the query answered by a completion over chunks of the index at position i
AnsweredFrom(resp, i) ==
    /\ resp.retrievals = 1
    /\ resp.completions = 1
    /\ resp.retrieved_code # <<>>
    /\ \A j \in 1..Len(resp.retrieved_code) :
          resp.retrieved_code[j].by = VECTOR_STORES[i].vs.by

\* the answers that are given without looking into an index
NonAnswer(resp) ==
    /\ \/ resp.answer = AnsNoRepo
       \/ \E name \in QueryIds : resp.answer = AnsNoIndex(name)
    /\ resp.retrieved_code = <<>>
    /\ resp.retrievals = 0
    /\ resp.completions = 0

\* the completion call was made and returned
Completed(resp) ==
    resp.completions = 1 /\ resp.answer # AnsError(<<"completion failed">>)

\* C21: when the process state records no repository name (None or empty)
\* and the registry is not empty, the query is resolved to the key stored
\* first: it is no non-answer, a retrieval is made, and when retrieval and
\* completion return, the answer is the completion for that key over
\* chunks of that key's index.
C21_FirstStoreFallback ==
    ( /\ response.op = "query"
      /\ ~Truthy(get_state.repo_name)
      /\ VECTOR_STORES # <<>> )
        => /\ ~NonAnswer(response)
           /\ response.retrievals = 1
           /\ Completed(response)
                => /\ AnsweredFrom(response, 1)
                   /\ response.answer
                        = <<"completion for ">> \o VECTOR_STORES[1].key

C21_Witness ==
    /\ response.op = "query"
    /\ get_state.repo_name = None
    /\ Len(VECTOR_STORES) = 2
    /\ Completed(response)
    /\ response.retrieved_code[1].by = VECTOR_STORES[1].vs.by

\* C22: with a name recorded in the process state, a stored key equal to
\* the name is the one used, also when a key stored before it matches by
\* containment; without such a key the first key in insertion order that
\* contains the name or is contained in it is used; and when no key
\* matches, the answer is the no-index answer with no chunks, no retrieval
\* and no completion call.
C22_ExactThenFuzzy ==
    (response.op = "query" /\ Truthy(get_state.repo_name))
        => LET name == get_state.repo_name
               m == FuzzyMatches(VECTOR_STORES, name)
           IN  IF HasKey(VECTOR_STORES, name)
               THEN /\ response.retrievals = 1
                    /\ Completed(response)
                         => AnsweredFrom(response,
                                         IndexOfKey(VECTOR_STORES, name))
               ELSE IF m # {}
               THEN /\ response.retrievals = 1
                    /\ Completed(response)
                         => AnsweredFrom(response,
                                         CHOOSE i \in m : \A j \in m : i <= j)
               ELSE /\ NonAnswer(response)
                    /\ VECTOR_STORES # <<>> => response.answer = AnsNoIndex(name)

\* the key equal to the name was stored second, after a key that contains
\* the name, and the chunks are those of the second
C22_Witness ==
    /\ response.op = "query"
    /\ Len(VECTOR_STORES) = 2
    /\ VECTOR_STORES[2].key = get_state.repo_name
    /\ Contains(get_state.repo_name, VECTOR_STORES[1].key)
    /\ Completed(response)
    /\ AnsweredFrom(response, 2)

\* the query finds an index: the registry is not empty and the name taken
\* from the process state, or the first key if there is none, is a key or
\* matches one by containment
IndexResolved ==
    /\ VECTOR_STORES # <<>>
    /\ LET name == IF Truthy(get_state.repo_name) THEN get_state.repo_name
                   ELSE VECTOR_STORES[1].key
       IN  HasKey(VECTOR_STORES, name) \/ FuzzyMatches(VECTOR_STORES, name) # {}

\* the chunk texts of a prompt context, in order
PromptTexts(context) == SelectSeq(context, LAMBDA x : x # DocSeparator)

\* C29 as stated: a query whose index is resolved makes exactly one
\* retrieval and exactly one completion call, a query answered with a
\* non-answer makes neither, and the chunks returned with a completion are
\* the chunk texts of the prompt, in the same order.
C29_OneRetrievalOneCompletion ==
    response.op = "query"
        => /\ IndexResolved => /\ response.retrievals = 1
                               /\ response.completions = 1
           /\ ~IndexResolved => NonAnswer(response)
           /\ Completed(response)
                => response.retrieved_code = PromptTexts(response.context)

\* C29 amended: a query whose index is resolved makes exactly one
\* retrieval; it makes exactly one completion call if the retrieval
\* returned and none if the retrieval raised, in which case the answer
\* reports that error; a non-answer makes neither call; the chunks
\* returned with a completion are the chunk texts of the prompt, in the
\* same order.
C29_CallsOfAQuery ==
    response.op = "query"
        => /\ IndexResolved
                => /\ response.retrievals = 1
                   /\ response.completions \in {0, 1}
                   /\ response.completions = 0
                        <=> response.answer = AnsError(<<"retrieval failed">>)
           /\ ~IndexResolved => NonAnswer(response)
           /\ Completed(response)
                => /\ response.retrieved_code # <<>>
                   /\ response.retrieved_code = PromptTexts(response.context)

\* a completion over two chunks
C29_Witness ==
    /\ response.op = "query"
    /\ Completed(response)
    /\ Len(response.retrieved_code) = 2
    /\ Len(response.context) = 3

\* the acquisition of the run has been declared failed: the exception of
\* lines 129-132 has been raised
AcquisitionFailed(run) ==
    /\ run.pc \in {"except", "finally"}
    /\ run.exc # <<>>
    /\ run.exc[1] = MsgCloneFailed(<<>>)[1]

\* C23: ordered fallback.  attempts[n] is the outcome of strategy n, so the
\* strategies are tried in order and once each; a strategy is tried only
\* after every earlier one failed, none after one succeeded, and the
\* acquisition is declared failed only after the third strategy was tried
\* and failed.
C23_OrderedFallback ==
    \A r \in Runs :
        LET a == runs[r].attempts
        IN  /\ Len(a) <= 3
            /\ \A n \in 1..(Len(a) - 1) : a[n] # "ok"
            /\ AcquisitionFailed(runs[r]) => (Len(a) = 3 /\ a[3] # "ok")

\* C24: whenever the status is cloning or indexing, is_processing is true.
C24_BusyWhileWorking ==
    get_state.status \in {"cloning", "indexing"} => get_state.is_processing

\* the path of line 32 and the path of line 52
DeterministicPath(run) == PathJoin(REPO_DIR, run.repo_name)
SuffixedPath(run, t) == PathJoin(REPO_DIR, run.repo_name \o <<"_">> \o t)

\* the positions of a run between its successful fetch and its ready write
AfterClone == {"cloned", "indexing", "loaded", "embedding", "stored"}

\* C25: the path of the ready write is the path the successful fetch cloned
\* into.  The path chosen before the fetches is the deterministic one, or
\* the suffixed one when the old copy was there and could not be removed;
\* the first and second fetch clone into the chosen path, the third into
\* the alternative location, and the path of the run becomes the one
\* cloned into, which then exists; indexing loads from the path of the run,
\* which does not change until the ready write records it.
C25_ReadyPathIsClonePath ==
    [][\A r \in Runs :
          /\ (runs[r].pc = "cloning" /\ runs'[r].pc = "fetching")
                => LET det == DeterministicPath(runs[r])
                   IN  IF det \in fs /\ det \in fs'
                       THEN \E t \in TimeStamps :
                                runs'[r].repo_path = SuffixedPath(runs[r], t)
                       ELSE runs'[r].repo_path = det
          /\ (runs[r].pc = "fetching" /\ runs'[r].pc = "cloned")
                => /\ runs'[r].repo_path =
                        IF Len(runs'[r].attempts) = 3 THEN runs[r].alt_path
                        ELSE runs[r].repo_path
                   /\ Len(runs'[r].attempts) = 3
                        => \E t \in TimeStamps : runs'[r].repo_path = AltPath(t)
                   /\ runs'[r].repo_path \in fs'
          /\ (runs[r].pc \in AfterClone /\ runs'[r].pc \in AfterClone \cup {"finally"})
                => runs'[r].repo_path = runs[r].repo_path
          /\ (runs[r].pc = "indexing" /\ runs'[r].pc = "loaded")
                => runs[r].repo_path \in fs
          /\ (runs[r].pc = "stored" /\ runs'[r].pc = "finally")
                => get_state'.repo_path = runs[r].repo_path]_vars

\* ready after the third strategy: the alternative location is recorded
C25_Witness ==
    \E r \in Runs : /\ runs[r].pc = "finally"
                    /\ runs[r].exc = <<>>
                    /\ Len(runs[r].attempts) = 3
                    /\ \E t \in TimeStamps : get_state.repo_path = AltPath(t)
                    /\ get_state.repo_path \in fs

\* C26: a removal of the old copy that fails is not fatal: the run goes on
\* to its first fetch with no exception raised, and such a run reaches
\* ready when a fetch, the load and the index build succeed.
C26_RemovalFailureTolerated ==
    [][\A r \in Runs :
          /\ (runs[r].pc = "cloning" /\ runs'[r] # runs[r])
                => /\ runs'[r].pc = "fetching"
                   /\ runs'[r].exc = <<>>
                   /\ runs'[r].attempts = <<>>
          /\ ( /\ runs[r].pc = "stored" /\ runs'[r] # runs[r]
               /\ \E t \in TimeStamps :
                      runs[r].repo_path = SuffixedPath(runs[r], t) )
                => /\ runs'[r].pc = "finally"
                   /\ get_state'.status = "ready"]_vars

\* ready after a removal that failed: the suffixed path is recorded
C26_Witness ==
    \E r \in Runs : /\ runs[r].pc = "finally"
                    /\ runs[r].exc = <<>>
                    /\ get_state.status = "ready"
                    /\ \E t \in TimeStamps :
                           get_state.repo_path = SuffixedPath(runs[r], t)
                    /\ DeterministicPath(runs[r]) \in fs

\* C27: an update_state call that supplies repo_name stores that name,
\* whether or not it supplies repo_path; a call that supplies neither
\* leaves repo_name as it was; and a call that changes repo_name without
\* supplying it has supplied repo_path, and the name stored is the last
\* segment of that path.
C27_NameFromPath ==
    [][/\ Has(LastCall, "repo_name")
            => get_state'.repo_name = LastCall.repo_name
       /\ (~Has(LastCall, "repo_name") /\ ~Has(LastCall, "repo_path"))
            => get_state'.repo_name = get_state.repo_name
       /\ (~Has(LastCall, "repo_name") /\ get_state'.repo_name # get_state.repo_name)
            => /\ Has(LastCall, "repo_path")
               /\ get_state'.repo_name = Basename(LastCall.repo_path)
               /\ get_state'.repo_name = <<"a">>]_vars

\* a call supplied an existing repo_path together with repo_name, and the
\* name supplied is the one stored
C27_Witness ==
    /\ runs[1].writes # <<>>
    /\ Has(runs[1].writes[1], "repo_path")
    /\ Has(runs[1].writes[1], "repo_name")
    /\ runs[1].writes[1].repo_path \in fs
    /\ get_state.repo_name = runs[1].writes[1].repo_name
    /\ get_state.repo_name # Basename(get_state.repo_path)

\* C28: every run accepted is started and returns; it returns from its
\* finally clause, the last status it wrote is ready or error, and at the
\* step that releases is_processing the status is ready or error.
C28_AcceptedRunsFinish ==
    /\ \A r \in Runs : (runs[r].pc = "scheduled") ~> (runs[r].pc = "done")
    /\ [][\A r \in Runs :
             (runs[r].pc # "done" /\ runs'[r].pc = "done")
                 => LET w == StatusWrites(runs[r])
                    IN  /\ runs[r].pc = "finally"
                        /\ w # <<>>
                        /\ w[Len(w)][1] \in {"ready", "error"}
                        /\ get_state.status \in {"ready", "error"}
                        /\ get_state'.status \in {"ready", "error"}
                        /\ ~get_state'.is_processing]_vars

\* both runs accepted have returned, the last of them with ready
C28_Witness ==
    /\ \A r \in Runs : runs[r].pc = "done"
    /\ get_state.status = "ready"
    /\ ~get_state.is_processing

\* the run r is the only one under way
Alone(r) == \A q \in Runs \ {r} : runs[q].pc \in {"unused", "done"}

\* C30: when a run that is the only one under way writes ready, the
\* repo_name that write records resolves, exactly or by containment, to the
\* index this run has stored.
C30_ReadyNameResolves ==
    [][\A r \in Runs :
          (Alone(r) /\ runs[r].pc = "stored" /\ runs'[r].pc = "finally")
              => LET i == ResolveStore(VECTOR_STORES', get_state'.repo_name)
                 IN  /\ i # 0
                     /\ VECTOR_STORES'[i].vs.by = r]_vars

\* C31: status and progress are paired: idle with 0.0, cloning with 0.1,
\* indexing with 0.4 or 0.7, ready with 1.0, error with 0.0; so progress
\* lies between 0.0 and 1.0.
C31_StatusProgressPaired ==
    LET s == get_state.status
        p == get_state.progress
    IN  /\ s \in {"idle", "cloning", "indexing", "ready", "error"}
        /\ s = "idle" => p = 0
        /\ s = "cloning" => p = 1
        /\ s = "indexing" => p \in {4, 7}
        /\ s = "ready" => p = 10
        /\ s = "error" => p = 0
        /\ p \in 0..10

\* a run has gone on to embedding after is_processing was cleared under it,
\* by a reset or by the release of another run
C31_Witness ==
    \E r \in Runs : /\ runs[r].pc = "embedding"
                    /\ ~get_state.is_processing
                    /\ get_state.status = "indexing"
                    /\ get_state.progress = 7

\* C32: the registry holds at most one index.
C32_AtMostOneIndex == Len(VECTOR_STORES) <= 1

\* the indexes of the registry that run r has built
BuiltBy(stores, r) == {i \in 1..Len(stores) : stores[i].vs.by = r}

\* r is the only run accepted so far
Single(r) == \A q \in Runs \ {r} : runs[q].pc = "unused"

\* C33: a run that ends in error leaves no index registered.  An index
\* built by a run is in the registry only once the run has loaded, split
\* and embedded with no exception; accepting a start empties the registry
\* and the run removes the entry of its name before it clones; no step of a
\* run but the one that stores adds an entry; so when a single run writes
\* error, and from then on, the registry has no entry under its name.
C33_ErrorLeavesNoIndex ==
    [][\A r \in Runs :
          /\ BuiltBy(VECTOR_STORES', r) # {}
                => /\ runs'[r].pc \in {"stored", "finally", "done"}
                   /\ runs'[r].exc = <<>>
          /\ (runs[r].pc = "unused" /\ runs'[r].pc = "scheduled")
                => VECTOR_STORES' = <<>>
          /\ (runs[r].pc = "locked" /\ runs'[r].pc = "cloning")
                => ~HasKey(VECTOR_STORES', runs'[r].repo_name)
          /\ (runs'[r] # runs[r] /\ runs'[r].pc # "stored")
                => \A i \in 1..Len(VECTOR_STORES') :
                       HasKey(VECTOR_STORES, VECTOR_STORES'[i].key)
          /\ (Single(r) /\ runs'[r].pc \in {"finally", "done"}
                        /\ runs'[r].exc # <<>>)
                => /\ get_state'.status \in {"error", "idle"}
                   /\ ~HasKey(VECTOR_STORES', runs'[r].repo_name)]_vars

\* the single run has written error after the embedding raised
C33_Witness ==
    \E r \in Runs : /\ Single(r)
                    /\ runs[r].pc = "finally"
                    /\ runs[r].exc = <<"embedding failed">>
                    /\ get_state.status = "error"
                    /\ ~HasKey(VECTOR_STORES, runs[r].repo_name)

\* app_state and the registry are as reset_state and clear_all_vector_dbs
\* leave them
AsReset == app_state = reset_state /\ VECTOR_STORES = clear_all_vector_dbs

\* the runs under way whose task has started; each of them has written
\* is_processing, so AsReset tells that a reset was served after their
\* last write
Started == {r \in InFlight : runs[r].pc # "scheduled"}

\* C34: after a reset served while runs were under way, and with no start
\* waiting for its task to begin, app_state and the registry stay as the
\* reset left them until a start is accepted: the runs under way write
\* nothing more.
C34_ResetStays ==
    [][(/\ AsReset
        /\ Started # {}
        /\ Started = InFlight
        /\ \A r \in Runs : ~(runs[r].pc = "unused" /\ runs'[r].pc = "scheduled"))
          => (app_state' = reset_state /\ VECTOR_STORES' = clear_all_vector_dbs)]_vars

====
